---- MODULE Spec2Model ----
(***************************************************************************)
(* Model of the autoheal pipeline of autoheal_graph.py: five LangGraph     *)
(* nodes run in a fixed order over one shared state dict.                  *)
(*                                                                         *)
(* Text is a sequence of atoms.  An atom is one character ("tick" is the   *)
(* backquote, "\n", "E", "x") or an indivisible word ("python", "assert"), *)
(* so the fence markers, three backquotes with and without the word        *)
(* python, are the atom sequences FencePython and Fence, and str.replace   *)
(* works on them position by position.                                     *)
(***************************************************************************)
EXTENDS Integers, Sequences, FiniteSets, TLC

VARIABLES
    pc,         \* node the engine runs next, "END" or "Aborted"
    state,      \* the shared state dict threaded through the nodes
    error,      \* exception that aborted the run, "none" otherwise
    calls,      \* requests.post calls made so far, per node
    tmp_file,   \* the NamedTemporaryFile of run_static_checks_node exists on disk
    tmp_dir,    \* the TemporaryDirectory of run_pytest_node exists on disk
    trace,      \* history: nodes entered, in order
    writes,     \* history: every assignment state[key] = ..., in order
    stub,       \* answers the external collaborators (analyzers, evaluation
                \* capability, pytest) of the node under test are scripted to
                \* give, in order (<<>>: nothing is stubbed)
    md_report,  \* the markdown report file: <<>> while not written, else <<its data>>
    fixed_file  \* the *_fixed.py file: <<>> while not written, else <<its text>>

vars == <<pc, state, error, calls, tmp_file, tmp_dir, trace, writes, stub, md_report, fixed_file>>

----------------------------------------------------------------------------
(* Bounds of the model *)

\* longest analyzer output, in atoms
MaxOut == 2
\* most parts (fence markers, words, characters) a capability reply is built from
MaxParts == 2

----------------------------------------------------------------------------
(* Text helpers: str.strip, str.replace, substring test, str.splitlines *)

Whitespace == {" ", "\n"}

RECURSIVE LStrip(_)
LStrip(s) ==
    IF s # <<>> /\ Head(s) \in Whitespace THEN LStrip(Tail(s)) ELSE s

RECURSIVE RStrip(_)
RStrip(s) ==
    IF s # <<>> /\ s[Len(s)] \in Whitespace
    THEN RStrip(SubSeq(s, 1, Len(s) - 1))
    ELSE s

Strip(s) == RStrip(LStrip(s))

StartsWith(s, old) ==
    Len(s) >= Len(old) /\ SubSeq(s, 1, Len(old)) = old

\* s.replace(old, ""): non-overlapping occurrences, scanned left to right
RECURSIVE Remove(_, _)
Remove(s, old) ==
    IF s = <<>> THEN <<>>
    ELSE IF StartsWith(s, old) THEN Remove(SubSeq(s, Len(old) + 1, Len(s)), old)
    ELSE <<Head(s)>> \o Remove(Tail(s), old)

\* sub in s
Contains(s, sub) ==
    \E i \in 1..(Len(s) - Len(sub) + 1) : SubSeq(s, i, i + Len(sub) - 1) = sub

\* s.splitlines(): one entry per line, no entry for a trailing line break
RECURSIVE SplitLines(_)
SplitLines(s) ==
    IF s = <<>> THEN <<>>
    ELSE IF \E i \in 1..Len(s) : s[i] = "\n"
         THEN LET i == CHOOSE j \in 1..Len(s) :
                           s[j] = "\n" /\ \A k \in 1..(j - 1) : s[k] # "\n"
              IN  <<SubSeq(s, 1, i - 1)>> \o SplitLines(SubSeq(s, i + 1, Len(s)))
         ELSE <<s>>

RECURSIVE Flatten(_)
Flatten(ss) == IF ss = <<>> THEN <<>> ELSE Head(ss) \o Flatten(Tail(ss))

SeqsUpTo(S, n) == UNION {[1..k -> S] : k \in 0..n}

----------------------------------------------------------------------------
(* Literals of the program *)

Fence == <<"tick", "tick", "tick">>
FencePython == <<"tick", "tick", "tick", "python">>
AssertMarker == <<"assert">>
NoTestsSentinel == <<"# LLM did not return any tests", "\n">>
NoReport == [error |-> "No report generated"]
Tools == <<"flake8", "mypy">>

----------------------------------------------------------------------------
(* The environment: what the external tools and the evaluation capability  *)
(* can answer.                                                             *)

\* the submissions evaluated
Codes == {<<"x">>, <<"x", "\n", "x">>}

\* one run of an analyzer: exit status and captured stdout+stderr; "oserror"
\* is subprocess failing to start the executable (FileNotFoundError)
Outputs == SeqsUpTo({"E", "\n"}, MaxOut)
ToolRuns ==
    [exit : {"zero", "nonzero"}, out : Outputs] \cup {[exit |-> "oserror", out |-> <<>>]}

\* text the capability can put in the completion slot
\* (an opening fence line, a closing fence line, the assertion keyword, prose)
Parts == {FencePython \o <<"\n">>, <<"\n">> \o Fence, AssertMarker, <<"x">>}
Replies == {Flatten(p) : p \in SeqsUpTo(Parts, MaxParts)}

\* an HTTP response to a test or fix request; ok = FALSE makes raise_for_status raise
Responses == [ok : {TRUE}, content : Replies] \cup {[ok |-> FALSE, content |-> <<>>]}

\* The completion text of a verdict request, given by what json.loads makes of
\* it: no JSON at all ("invalid"), a JSON object ("dict") or another JSON value
\* ("list").  val is the parsed object.
VerdictDicts ==
    {[verdict |-> v, reason |-> "r", suggestions |-> "s"] : v \in {"pass", "fail", "FAIL"}}
        \cup {[reason |-> "r", suggestions |-> "s"]}
VerdictTexts ==
    [json : {"dict"}, val : VerdictDicts]
        \cup {[json |-> "list", val |-> [items |-> "none"]],
              [json |-> "invalid", val |-> [items |-> "none"]]}
VerdictResponses ==
    [ok : {TRUE}, content : VerdictTexts]
        \cup {[ok |-> FALSE, content |-> [json |-> "invalid", val |-> [items |-> "none"]]]}

\* the JSON reports pytest can leave behind
Reports ==
    {[summary |-> [collected |-> "three", failed |-> "none"]],
     [tests |-> <<[nodeid |-> "test_1", outcome |-> "failed"]>>]}
ReportFiles ==
    [present : {TRUE}, json : {"dict"}, val : Reports]
        \cup {[present |-> TRUE, json |-> "invalid", val |-> [items |-> "none"]],
              [present |-> FALSE, json |-> "invalid", val |-> [items |-> "none"]]}
\* one run of pytest: how subprocess.run ended and the report file afterwards;
\* "unwritable" is open() or write() failing on submission.py or
\* test_submission.py, so that pytest is never invoked
PytestRuns ==
    [exit : {"zero", "nonzero"}, report : ReportFiles]
        \cup [exit : {"oserror", "unwritable"},
              report : {[present |-> FALSE, json |-> "invalid", val |-> [items |-> "none"]]}]

----------------------------------------------------------------------------
(* Dict helpers *)

Get(d, k, default) == IF k \in DOMAIN d THEN d[k] ELSE default

Put(d, k, v) == [x \in (DOMAIN d) \cup {k} |-> IF x = k THEN v ELSE d[x]]

RECURSIVE Apply(_, _)
Apply(d, assigns) ==
    IF assigns = <<>> THEN d
    ELSE Apply(Put(d, Head(assigns).key, Head(assigns).val), Tail(assigns))

\* json.loads / json.load: raises on text that is not JSON
json_loads(text) ==
    IF text.json = "invalid"
    THEN [raised |-> "JSONDecodeError", value |-> [type |-> "none", val |-> text.val]]
    ELSE [raised |-> "none", value |-> [type |-> text.json, val |-> text.val]]

\* the result of running a node: the exception it raised ("none": it returned),
\* the assignments it made to the state dict, the requests.post calls it made,
\* and whether its temporary artifact is still on disk when it is left
Outcome(raised, assigns, posts, leftover) ==
    [raised |-> raised, assigns |-> assigns, posts |-> posts, leftover |-> leftover]

----------------------------------------------------------------------------
(* 3. Utility implementations *)

\* results[tool] of one analyzer run
ToolFindings(run) ==
    IF run.exit = "zero"
    THEN IF Strip(run.out) # <<>> THEN SplitLines(Strip(run.out)) ELSE <<>>
    ELSE SplitLines(Strip(run.out))

\* _run_static_checks without the except clause: a non-zero exit propagates
_run_static_checks_uncaught(runs) ==
    IF \E i \in 1..Len(Tools) : runs[i].exit = "oserror"
    THEN [raised |-> "FileNotFoundError", value |-> <<>>]
    ELSE IF \E i \in 1..Len(Tools) : runs[i].exit = "nonzero"
         THEN [raised |-> "CalledProcessError", value |-> <<>>]
         ELSE [raised |-> "none",
               value |-> [t \in {Tools[i] : i \in 1..Len(Tools)} |->
                             ToolFindings(runs[CHOOSE i \in 1..Len(Tools) : Tools[i] = t])]]

_run_static_checks(runs) ==
    IF \E i \in 1..Len(Tools) : runs[i].exit = "oserror"
    THEN [raised |-> "FileNotFoundError", value |-> <<>>]
    ELSE [raised |-> "none",
          value |-> [t \in {Tools[i] : i \in 1..Len(Tools)} |->
                        ToolFindings(runs[CHOOSE i \in 1..Len(Tools) : Tools[i] = t])]]

\* _call_llm taking a reply that is not JSON for an empty verdict object
_call_llm_lenient(resp) ==
    IF ~resp.ok
    THEN [raised |-> "HTTPError", value |-> [type |-> "none", val |-> resp.content.val]]
    ELSE IF resp.content.json = "invalid"
         THEN [raised |-> "none", value |-> [type |-> "dict", val |-> <<>>]]
         ELSE json_loads(resp.content)

_call_llm(resp) ==
    IF ~resp.ok
    THEN [raised |-> "HTTPError", value |-> [type |-> "none", val |-> resp.content.val]]
    ELSE json_loads(resp.content)

\* the cleaning both _generate_tests and generate_fix_node apply to a reply
Clean(raw) == Strip(Remove(Remove(raw, FencePython), Fence))

\* _generate_tests without the retry: the first cleaned reply is returned
_generate_tests_noretry(resps) ==
    IF ~resps[1].ok
    THEN [raised |-> "HTTPError", value |-> <<>>, posts |-> 1]
    ELSE LET cleaned == Clean(resps[1].content)
         IN  [raised |-> "none",
              value |-> IF cleaned # <<>> THEN cleaned ELSE NoTestsSentinel,
              posts |-> 1]

\* _generate_tests asking a second time whatever the first reply holds
_generate_tests_always_retry(resps) ==
    IF ~resps[1].ok
    THEN [raised |-> "HTTPError", value |-> <<>>, posts |-> 1]
    ELSE IF ~resps[2].ok
         THEN [raised |-> "HTTPError", value |-> <<>>, posts |-> 2]
         ELSE LET cleaned2 == Clean(resps[2].content)
              IN  [raised |-> "none",
                   value |-> IF cleaned2 # <<>> THEN cleaned2 ELSE NoTestsSentinel,
                   posts |-> 2]

\* _generate_tests returning the cleaned text with no sentinel for empty text
_generate_tests_nofallback(resps) ==
    IF ~resps[1].ok
    THEN [raised |-> "HTTPError", value |-> <<>>, posts |-> 1]
    ELSE LET cleaned == Clean(resps[1].content)
         IN  IF ~Contains(cleaned, AssertMarker)
             THEN IF ~resps[2].ok
                  THEN [raised |-> "HTTPError", value |-> <<>>, posts |-> 2]
                  ELSE [raised |-> "none", value |-> Clean(resps[2].content), posts |-> 2]
             ELSE [raised |-> "none", value |-> cleaned, posts |-> 1]

\* _generate_tests putting the sentinel in place of any assertion-free retry
_generate_tests_strict(resps) ==
    IF ~resps[1].ok
    THEN [raised |-> "HTTPError", value |-> <<>>, posts |-> 1]
    ELSE LET cleaned == Clean(resps[1].content)
         IN  IF ~Contains(cleaned, AssertMarker)
             THEN IF ~resps[2].ok
                  THEN [raised |-> "HTTPError", value |-> <<>>, posts |-> 2]
                  ELSE LET cleaned2 == Clean(resps[2].content)
                       IN  [raised |-> "none",
                            value |-> IF Contains(cleaned2, AssertMarker)
                                      THEN cleaned2
                                      ELSE NoTestsSentinel,
                            posts |-> 2]
             ELSE [raised |-> "none", value |-> cleaned, posts |-> 1]

\* resps[i] is the response to the i-th request, if it is made
\* _generate_tests treating a failed request like an answer without tests:
\* retried once, then replaced by the sentinel
_generate_tests_absorbing(resps) ==
    LET cleaned == IF resps[1].ok THEN Clean(resps[1].content) ELSE <<>>
    IN  IF ~Contains(cleaned, AssertMarker)
        THEN LET cleaned2 == IF resps[2].ok THEN Clean(resps[2].content) ELSE <<>>
             IN  [raised |-> "none",
                  value |-> IF cleaned2 # <<>> THEN cleaned2 ELSE NoTestsSentinel,
                  posts |-> 2]
        ELSE [raised |-> "none",
              value |-> IF cleaned # <<>> THEN cleaned ELSE NoTestsSentinel,
              posts |-> 1]

_generate_tests(resps) ==
    IF ~resps[1].ok
    THEN [raised |-> "HTTPError", value |-> <<>>, posts |-> 1]
    ELSE LET cleaned == Clean(resps[1].content)
         IN  IF ~Contains(cleaned, AssertMarker)
             THEN IF ~resps[2].ok
                  THEN [raised |-> "HTTPError", value |-> <<>>, posts |-> 2]
                  ELSE LET cleaned2 == Clean(resps[2].content)
                       IN  [raised |-> "none",
                            value |-> IF cleaned2 # <<>> THEN cleaned2 ELSE NoTestsSentinel,
                            posts |-> 2]
             ELSE [raised |-> "none",
                   value |-> IF cleaned # <<>> THEN cleaned ELSE NoTestsSentinel,
                   posts |-> 1]

_run_pytest(run) ==
    IF run.exit = "oserror"
    THEN [raised |-> "FileNotFoundError", value |-> NoReport]
    ELSE IF run.report.present
         THEN LET r == json_loads(run.report)
              IN  [raised |-> r.raised, value |-> r.value.val]
         ELSE [raised |-> "none", value |-> NoReport]

----------------------------------------------------------------------------
(* 2. Node functions for LangGraph *)

run_static_checks_node(st, runs) ==
    LET r == _run_static_checks(runs)
    IN  IF r.raised # "none"
        THEN Outcome(r.raised, <<>>, 0, TRUE)
        ELSE Outcome("none", <<[key |-> "static_analysis", val |-> r.value]>>, 0, FALSE)

call_llm_node(st, resp) ==
    LET r == _call_llm(resp)
    IN  IF r.raised # "none"
        THEN Outcome(r.raised, <<>>, 1, FALSE)
        ELSE Outcome("none", <<[key |-> "llm_verdict", val |-> r.value]>>, 1, FALSE)

\* generate_tests_node storing the tests under the submission's key
generate_tests_node_clobber(st, resps) ==
    LET r == _generate_tests(resps)
    IN  IF r.raised # "none"
        THEN Outcome(r.raised, <<>>, r.posts, FALSE)
        ELSE Outcome("none", <<[key |-> "code", val |-> r.value]>>, r.posts, FALSE)

generate_tests_node(st, resps) ==
    LET r == _generate_tests(resps)
    IN  IF r.raised # "none"
        THEN Outcome(r.raised, <<>>, r.posts, FALSE)
        ELSE Outcome("none", <<[key |-> "test_code", val |-> r.value]>>, r.posts, FALSE)

\* run_pytest_node with a directory made by mkdtemp and removed by a last
\* statement that an exception skips
run_pytest_node_mkdtemp(st, run) ==
    LET r == IF run.exit = "unwritable"
             THEN [raised |-> "OSError", value |-> NoReport]
             ELSE _run_pytest(run)
    IN  IF r.raised # "none"
        THEN Outcome(r.raised, <<>>, 0, TRUE)
        ELSE Outcome("none", <<[key |-> "pytest_report", val |-> r.value]>>, 0, FALSE)

\* the TemporaryDirectory context manager removes the directory on every exit
run_pytest_node(st, run) ==
    LET r == IF run.exit = "unwritable"
             THEN [raised |-> "OSError", value |-> NoReport]
             ELSE _run_pytest(run)
    IN  IF r.raised # "none"
        THEN Outcome(r.raised, <<>>, 0, FALSE)
        ELSE Outcome("none", <<[key |-> "pytest_report", val |-> r.value]>>, 0, FALSE)

\* generate_fix_node without the verdict guard: the fix is requested always
generate_fix_node_unguarded(st, resp) ==
    IF ~resp.ok
    THEN Outcome("HTTPError", <<>>, 1, FALSE)
    ELSE Outcome("none", <<[key |-> "fixed_code", val |-> Clean(resp.content)]>>, 1, FALSE)

\* generate_fix_node with the guard turned round: the fix is requested unless
\* the verdict is "fail"
generate_fix_node_inverted(st, resp) ==
    LET llm == Get(st, "llm_verdict", [type |-> "dict", val |-> <<>>])
    IN  IF llm.type # "dict"
        THEN Outcome("AttributeError", <<>>, 0, FALSE)
        ELSE IF Get(llm.val, "verdict", "") = "fail"
             THEN Outcome("none", <<[key |-> "fixed_code", val |-> <<>>]>>, 0, FALSE)
             ELSE IF ~resp.ok
                  THEN Outcome("HTTPError", <<>>, 1, FALSE)
                  ELSE Outcome("none",
                               <<[key |-> "fixed_code", val |-> Clean(resp.content)]>>,
                               1, FALSE)

\* generate_fix_node falling back to an empty fix when the request fails
generate_fix_node_absorbing(st, resp) ==
    LET llm == Get(st, "llm_verdict", [type |-> "dict", val |-> <<>>])
    IN  IF llm.type # "dict"
        THEN Outcome("AttributeError", <<>>, 0, FALSE)
        ELSE IF Get(llm.val, "verdict", "") # "fail"
             THEN Outcome("none", <<[key |-> "fixed_code", val |-> <<>>]>>, 0, FALSE)
             ELSE IF ~resp.ok
                  THEN Outcome("none", <<[key |-> "fixed_code", val |-> <<>>]>>, 1, FALSE)
                  ELSE Outcome("none",
                               <<[key |-> "fixed_code", val |-> Clean(resp.content)]>>,
                               1, FALSE)

\* generate_fix_node sending the request a second time when it fails
generate_fix_node_resend(st, resp) ==
    LET llm == Get(st, "llm_verdict", [type |-> "dict", val |-> <<>>])
    IN  IF llm.type # "dict"
        THEN Outcome("AttributeError", <<>>, 0, FALSE)
        ELSE IF Get(llm.val, "verdict", "") # "fail"
             THEN Outcome("none", <<[key |-> "fixed_code", val |-> <<>>]>>, 0, FALSE)
             ELSE IF ~resp.ok
                  THEN Outcome("HTTPError", <<>>, 2, FALSE)
                  ELSE Outcome("none",
                               <<[key |-> "fixed_code", val |-> Clean(resp.content)]>>,
                               1, FALSE)

generate_fix_node(st, resp) ==
    LET llm == Get(st, "llm_verdict", [type |-> "dict", val |-> <<>>])
    IN  IF llm.type # "dict"
        THEN Outcome("AttributeError", <<>>, 0, FALSE)
        ELSE IF Get(llm.val, "verdict", "") # "fail"
             THEN Outcome("none", <<[key |-> "fixed_code", val |-> <<>>]>>, 0, FALSE)
             ELSE IF ~resp.ok
                  THEN Outcome("HTTPError", <<>>, 1, FALSE)
                  ELSE Outcome("none",
                               <<[key |-> "fixed_code", val |-> Clean(resp.content)]>>,
                               1, FALSE)

----------------------------------------------------------------------------
(* 4. Wire up LangGraph *)

Nodes == {"StaticCheck", "LLMEval", "TestGen", "TestRun", "FixCode"}
EntryPoint == "StaticCheck"
\* the graph with the TestGen edge drawn past TestRun
Edges_skip ==
    [StaticCheck |-> "LLMEval", LLMEval |-> "TestGen", TestGen |-> "FixCode",
     TestRun |-> "FixCode", FixCode |-> "END"]

Edges ==
    [StaticCheck |-> "LLMEval", LLMEval |-> "TestGen", TestGen |-> "TestRun",
     TestRun |-> "FixCode", FixCode |-> "END"]

\* app.invoke runs node, threads its assignments into the state and follows
\* the node's edge; an exception leaves the run aborted
Invoke(node, res) ==
    /\ pc = node
    /\ trace' = Append(trace, node)
    /\ calls' = [calls EXCEPT ![node] = @ + res.posts]
    /\ state' = Apply(state, res.assigns)
    /\ writes' = writes \o [i \in 1..Len(res.assigns) |->
                               [node |-> node, key |-> res.assigns[i].key]]
    /\ pc' = IF res.raised = "none" THEN Edges[node] ELSE "Aborted"
    /\ error' = res.raised

\* A response exists only for a request that is made: when the node makes
\* fewer requests than the script has entries, the rest of the script is the
\* fixed filler NoResponse.
NoResponse == [ok |-> FALSE, content |-> <<>>]

StaticCheck ==
    /\ pc = "StaticCheck"
    /\ \E runs \in (IF stub = <<>> THEN [1..Len(Tools) -> ToolRuns] ELSE {stub}) :
        LET res == run_static_checks_node(state, runs)
        IN  /\ Invoke("StaticCheck", res)
            /\ tmp_file' = res.leftover
            /\ UNCHANGED <<tmp_dir, stub, md_report, fixed_file>>

LLMEval ==
    /\ pc = "LLMEval"
    /\ \E resp \in (IF stub = <<>> THEN VerdictResponses ELSE {stub[1]}) :
        LET res == call_llm_node(state, resp)
        IN  /\ Invoke("LLMEval", res)
            /\ UNCHANGED <<tmp_file, tmp_dir, stub, md_report, fixed_file>>

\* a stubbed collaborator answers from its script, a live one with anything
TestGen ==
    /\ pc = "TestGen"
    /\ \E r1 \in (IF stub = <<>> THEN Responses ELSE {stub[1]}) :
        \E r2 \in (IF stub # <<>> THEN {stub[2]}
                   ELSE IF generate_tests_node(state, <<r1, NoResponse>>).posts < 2
                        THEN {NoResponse}
                        ELSE Responses) :
            LET res == generate_tests_node(state, <<r1, r2>>)
            IN  /\ Invoke("TestGen", res)
                /\ UNCHANGED <<tmp_file, tmp_dir, stub, md_report, fixed_file>>

TestRun ==
    /\ pc = "TestRun"
    /\ \E run \in (IF stub = <<>> THEN PytestRuns ELSE {stub[1]}) :
        LET res == run_pytest_node(state, run)
        IN  /\ Invoke("TestRun", res)
            /\ tmp_dir' = res.leftover
            /\ UNCHANGED <<tmp_file, stub, md_report, fixed_file>>

FixCode ==
    /\ pc = "FixCode"
    /\ \E resp \in (IF stub # <<>> THEN {stub[1]}
                 ELSE IF generate_fix_node(state, NoResponse).posts = 0
                      THEN {NoResponse}
                      ELSE Responses) :
        LET res == generate_fix_node(state, resp)
        IN  /\ Invoke("FixCode", res)
            /\ UNCHANGED <<tmp_file, tmp_dir, stub, md_report, fixed_file>>

----------------------------------------------------------------------------
(* 5. CLI + Markdown Reporting + Write Fix *)

\* the label the report gives the verdict
verdict_icon(result) ==
    IF Get(Get(result, "llm_verdict", [type |-> "dict", val |-> <<>>]).val,
           "verdict", "unknown") = "pass"
    THEN "PASS"
    ELSE "FAIL"

\* the per-test lines of the report
md_tests(result) ==
    LET pytest_report == Get(result, "pytest_report", <<>>)
    IN  IF Get(pytest_report, "tests", <<>>) # <<>>
        THEN [i \in 1..Len(pytest_report.tests) |->
                 [nodeid |-> pytest_report.tests[i].nodeid,
                  outcome |-> pytest_report.tests[i].outcome]]
        ELSE <<"No test details found.">>

\* fixed_artifact without the test for an empty fix: the file is written always
fixed_artifact_unconditional(result) ==
    <<Strip(Get(result, "fixed_code", <<>>)) \o <<"\n">>>>

\* the text written to the *_fixed.py file, if any
fixed_artifact(result) ==
    LET fixed == Strip(Get(result, "fixed_code", <<>>))
    IN  IF fixed # <<>> THEN <<fixed \o <<"\n">>>> ELSE <<>>

\* what evaluate_code_from_file does with the result of app.invoke: the files
\* it leaves and the exception it raised, if any
evaluate_code_from_file(result) ==
    IF Get(result, "llm_verdict", [type |-> "dict", val |-> <<>>]).type # "dict"
    THEN [raised |-> "AttributeError", md |-> <<>>, fixed |-> <<>>]
    ELSE IF "static_analysis" \notin DOMAIN result
         THEN [raised |-> "KeyError", md |-> <<[verdict_icon |-> "none"]>>, fixed |-> <<>>]
         ELSE [raised |-> "none",
               md |-> <<[verdict_icon |-> verdict_icon(result),
                         flake8 |-> Len(Get(result.static_analysis, "flake8", <<>>)),
                         mypy |-> Len(Get(result.static_analysis, "mypy", <<>>)),
                         tests |-> md_tests(result)]>>,
               fixed |-> fixed_artifact(result)]

\* app.invoke has returned the final state
\* a CLI that catches the exception of app.invoke and reports what there is
Completed_any == pc \in {"END", "Aborted"}

Completed == pc = "END"

Report ==
    /\ Completed
    /\ LET out == evaluate_code_from_file(state)
       IN  /\ md_report' = out.md
           /\ fixed_file' = out.fixed
           /\ pc' = IF out.raised = "none" THEN "Exit" ELSE "Aborted"
           /\ error' = out.raised
    /\ UNCHANGED <<state, calls, tmp_file, tmp_dir, trace, writes, stub>>

Init ==
    /\ pc = EntryPoint
    /\ state \in {[code |-> c] : c \in Codes}
    /\ error = "none"
    /\ calls = [n \in Nodes |-> 0]
    /\ tmp_file = FALSE
    /\ tmp_dir = FALSE
    /\ trace = <<>>
    /\ writes = <<>>
    /\ stub = <<>>
    /\ md_report = <<>>
    /\ fixed_file = <<>>

Next == StaticCheck \/ LLMEval \/ TestGen \/ TestRun \/ FixCode \/ Report

Spec == Init /\ [][Next]_vars

----------------------------------------------------------------------------
(* One node under test with stubbed collaborators: the run has come to the *)
(* node in the ordinary way and the answers it will get are fixed up front *)

ToolNames == {Tools[i] : i \in 1..Len(Tools)}
CleanFindings == [t \in ToolNames |-> <<>>]
VerdictValues ==
    [type : {"dict"}, val : VerdictDicts] \cup {[type |-> "list", val |-> [items |-> "none"]]}

InitStatic ==
    /\ pc = "StaticCheck"
    /\ state \in {[code |-> c] : c \in Codes}
    /\ error = "none"
    /\ calls = [n \in Nodes |-> 0]
    /\ tmp_file = FALSE
    /\ tmp_dir = FALSE
    /\ trace = <<>>
    /\ writes = <<>>
    /\ stub \in [1..Len(Tools) -> ToolRuns]
    /\ md_report = <<>>
    /\ fixed_file = <<>>

InitSynth ==
    /\ pc = "TestGen"
    /\ state \in {[code |-> c, static_analysis |-> CleanFindings, llm_verdict |-> v] :
                     c \in Codes, v \in VerdictValues}
    /\ error = "none"
    /\ calls = [n \in Nodes |-> IF n = "LLMEval" THEN 1 ELSE 0]
    /\ tmp_file = FALSE
    /\ tmp_dir = FALSE
    /\ trace = <<"StaticCheck", "LLMEval">>
    /\ writes = <<[node |-> "StaticCheck", key |-> "static_analysis"],
                  [node |-> "LLMEval", key |-> "llm_verdict"]>>
    /\ stub \in Responses \X Responses
    /\ md_report = <<>>
    /\ fixed_file = <<>>

InitExec ==
    /\ pc = "TestRun"
    /\ state \in {[code |-> c, static_analysis |-> CleanFindings, llm_verdict |-> v,
                   test_code |-> t] :
                     c \in Codes, v \in VerdictValues,
                     t \in {AssertMarker, <<"x">>, NoTestsSentinel}}
    /\ error = "none"
    /\ calls = [n \in Nodes |->
                   IF n = "LLMEval" THEN 1
                   ELSE IF n = "TestGen" THEN (IF state.test_code = AssertMarker THEN 1 ELSE 2)
                   ELSE 0]
    /\ tmp_file = FALSE
    /\ tmp_dir = FALSE
    /\ trace = <<"StaticCheck", "LLMEval", "TestGen">>
    /\ writes = <<[node |-> "StaticCheck", key |-> "static_analysis"],
                  [node |-> "LLMEval", key |-> "llm_verdict"],
                  [node |-> "TestGen", key |-> "test_code"]>>
    /\ stub \in {<<run>> : run \in PytestRuns}
    /\ md_report = <<>>
    /\ fixed_file = <<>>

InitFix ==
    /\ pc = "FixCode"
    /\ state \in {[code |-> c, static_analysis |-> CleanFindings, llm_verdict |-> v,
                   test_code |-> AssertMarker, pytest_report |-> NoReport] :
                     c \in Codes, v \in VerdictValues}
    /\ error = "none"
    /\ calls = [n \in Nodes |-> IF n \in {"LLMEval", "TestGen"} THEN 1 ELSE 0]
    /\ tmp_file = FALSE
    /\ tmp_dir = FALSE
    /\ trace = <<"StaticCheck", "LLMEval", "TestGen", "TestRun">>
    /\ writes = <<[node |-> "StaticCheck", key |-> "static_analysis"],
                  [node |-> "LLMEval", key |-> "llm_verdict"],
                  [node |-> "TestGen", key |-> "test_code"],
                  [node |-> "TestRun", key |-> "pytest_report"]>>
    /\ stub \in {<<resp>> : resp \in Responses}
    /\ md_report = <<>>
    /\ fixed_file = <<>>

\* findings StaticCheck can have left
SomeFindings == [ToolNames -> {<<>>, <<<<"E">>>>}]

InitVerdict ==
    /\ pc = "LLMEval"
    /\ state \in {[code |-> c, static_analysis |-> f] : c \in Codes, f \in SomeFindings}
    /\ error = "none"
    /\ calls = [n \in Nodes |-> 0]
    /\ tmp_file = FALSE
    /\ tmp_dir = FALSE
    /\ trace = <<"StaticCheck">>
    /\ writes = <<[node |-> "StaticCheck", key |-> "static_analysis"]>>
    /\ stub \in {<<resp>> : resp \in VerdictResponses}
    /\ md_report = <<>>
    /\ fixed_file = <<>>

\* either node that calls the evaluation capability once, under test
SpecService == (InitVerdict \/ InitFix) /\ [][LLMEval \/ FixCode]_vars

\* every subprocess and every request returns or fails, so app.invoke and the
\* CLI after it always take their next step
FairSpec == Spec /\ WF_vars(Next)

SpecStatic == InitStatic /\ [][StaticCheck]_vars
SpecSynth == InitSynth /\ [][TestGen]_vars
SpecExec == InitExec /\ [][TestRun]_vars
SpecFix == InitFix /\ [][FixCode]_vars

----------------------------------------------------------------------------
(* Properties *)

\* the order of the stages, and the key each stage owns
StageOrder == <<"StaticCheck", "LLMEval", "TestGen", "TestRun", "FixCode">>
OwnedKey ==
    [StaticCheck |-> "static_analysis", LLMEval |-> "llm_verdict", TestGen |-> "test_code",
     TestRun |-> "pytest_report", FixCode |-> "fixed_code"]
OwnedKeys == {OwnedKey[n] : n \in Nodes}

Written(key) == key \in DOMAIN state
\* the verdict outcome is Fail
VerdictIsFail ==
    /\ Written("llm_verdict")
    /\ state.llm_verdict.type = "dict"
    /\ Get(state.llm_verdict.val, "verdict", "") = "fail"

\* C1 (as stated): in every completed run, whatever the verdict and whatever
\* the reply to the fix request, fixed_code is empty if and only if the verdict
\* outcome is not Fail.
C1_FixGate ==
    pc = "END" => (state.fixed_code = <<>> <=> ~VerdictIsFail)

\* C1 (amended): in every completed run fixed_code is empty when the verdict
\* outcome is not Fail, and no fix request was made; when the outcome is Fail,
\* one request was made and fixed_code is its reply stripped of fence markers
\* and surrounding whitespace, which is empty for an empty or fence-only reply.
C1_FixGateAmended ==
    pc = "END" =>
        IF VerdictIsFail
        THEN /\ calls["FixCode"] = 1
             /\ stub[1].ok
             /\ state.fixed_code = Clean(stub[1].content)
        ELSE /\ calls["FixCode"] = 0
             /\ state.fixed_code = <<>>

\* a completed run with verdict Fail whose fence-only fix reply left fixed_code empty
C1_Witness ==
    /\ pc = "END"
    /\ VerdictIsFail
    /\ stub[1].content # <<>>
    /\ state.fixed_code = <<>>

\* C2: the stages start in the order StaticCheck, LLMEval, TestGen, TestRun,
\* FixCode, each after its predecessor has finished and none twice; the stage
\* to start next is the successor of the last one entered; a run that reaches
\* END has run all five, also when the verdict is not Fail.
C2_StageOrder ==
    /\ Len(trace) <= Len(StageOrder)
    /\ \A i \in 1..Len(trace) : i <= Len(StageOrder) => trace[i] = StageOrder[i]
    /\ pc \in Nodes => Len(trace) < Len(StageOrder) /\ pc = StageOrder[Len(trace) + 1]
    /\ pc = "END" => trace = StageOrder

\* a completed run with verdict pass: FixCode was entered and made no request
C2_Witness ==
    /\ pc = "END"
    /\ ~VerdictIsFail
    /\ trace = StageOrder
    /\ calls["FixCode"] = 0

\* every assignment so far went to a key the assigning stage owns, no key was
\* assigned twice, the state holds the submission and exactly the assigned
\* keys, and a completed run has assigned all five
C3_WriteOnce ==
    /\ \A i \in 1..Len(writes) :
        /\ writes[i].node \in Nodes
        /\ writes[i].key = OwnedKey[writes[i].node]
    /\ \A i, j \in 1..Len(writes) : writes[i].key = writes[j].key => i = j
    /\ DOMAIN state = {"code"} \cup {writes[i].key : i \in 1..Len(writes)}
    /\ pc = "END" => {writes[i].key : i \in 1..Len(writes)} = OwnedKeys

\* a key in the state stays, with its value
C3_Accumulates ==
    \A k \in DOMAIN state : k \in DOMAIN state' /\ state'[k] = state[k]

\* C3: each of static_analysis, llm_verdict, test_code, pytest_report and
\* fixed_code is written at most once, only by its owning stage, and exactly
\* once in a completed run; code is never changed after the start; a field
\* once present is never removed or overwritten.
C3_SingleWriter == []C3_WriteOnce /\ [][C3_Accumulates]_vars

\* a completed run: five assignments, one per stage
C3_Witness ==
    /\ pc = "END"
    /\ Len(writes) = Len(StageOrder)
    /\ \A k \in OwnedKeys : Written(k)

\* The Test Synthesizer under test: stub[1] answers its first request and
\* stub[2] the retry.  The node has run once pc has left "TestGen".
SynthRan == pc # "TestGen"
FirstAnswered == stub[1].ok
FirstCleaned == Clean(stub[1].content)
RetryAnswered == stub[2].ok
RetryCleaned == Clean(stub[2].content)
HasAssert(text) == Contains(text, AssertMarker)

\* C4: when the first reply, fence-stripped, holds no assertion marker and the
\* second reply is a valid test block, the Test Synthesizer made exactly two
\* requests and test_code is the fence-stripped second reply.
C4_Retry ==
    (SynthRan /\ FirstAnswered /\ ~HasAssert(FirstCleaned)
        /\ RetryAnswered /\ HasAssert(RetryCleaned)) =>
            /\ pc = "TestRun"
            /\ calls["TestGen"] = 2
            /\ state.test_code = RetryCleaned

\* prose first, tests on the retry: two requests, test_code is the retry's tests
C4_Witness ==
    /\ pc = "TestRun"
    /\ FirstAnswered /\ FirstCleaned # <<>> /\ ~HasAssert(FirstCleaned)
    /\ RetryAnswered /\ HasAssert(RetryCleaned)
    /\ calls["TestGen"] = 2
    /\ state.test_code = RetryCleaned

\* C5: whatever the replies, the Test Synthesizer makes at most two requests;
\* it makes exactly one when the first cleaned reply holds the assertion
\* marker, and that reply is test_code as it is.
C5_BoundedRetry ==
    /\ calls["TestGen"] <= 2
    /\ SynthRan => calls["TestGen"] >= 1
    /\ (SynthRan /\ FirstAnswered /\ HasAssert(FirstCleaned)) =>
            /\ pc = "TestRun"
            /\ calls["TestGen"] = 1
            /\ state.test_code = FirstCleaned

\* the first reply held an assertion: one request, although the stub had a
\* different answer ready for a second
C5_Witness ==
    /\ pc = "TestRun"
    /\ FirstAnswered /\ HasAssert(FirstCleaned)
    /\ RetryAnswered /\ RetryCleaned # FirstCleaned
    /\ calls["TestGen"] = 1
    /\ state.test_code = FirstCleaned

\* C6: if both replies are empty after fence stripping, test_code is the
\* sentinel comment; and test_code, once written, is never the empty string.
C6_Fallback ==
    /\ (SynthRan /\ FirstAnswered /\ FirstCleaned = <<>>
            /\ RetryAnswered /\ RetryCleaned = <<>>) =>
                /\ pc = "TestRun"
                /\ state.test_code = NoTestsSentinel
    /\ Written("test_code") => state.test_code # <<>>

\* two fence-only replies: test_code is the sentinel
C6_Witness ==
    /\ pc = "TestRun"
    /\ FirstAnswered /\ stub[1].content # <<>> /\ FirstCleaned = <<>>
    /\ RetryAnswered /\ stub[2].content # <<>> /\ RetryCleaned = <<>>
    /\ state.test_code = NoTestsSentinel

\* C7 (as stated): when the first output is empty or assertion-free, exactly
\* one retry is made, and if the output after the retry is still empty or
\* still assertion-free test_code is the sentinel and the run does not abort.
C7_Degradation ==
    (SynthRan /\ FirstAnswered /\ ~HasAssert(FirstCleaned) /\ RetryAnswered) =>
        /\ pc = "TestRun"
        /\ calls["TestGen"] = 2
        /\ ~HasAssert(RetryCleaned) => state.test_code = NoTestsSentinel

\* C7 (amended): when the first output is empty or assertion-free, exactly one
\* retry is made and the run does not abort; if the output after the retry is
\* still empty test_code is the sentinel, and if it is not empty it is
\* test_code as it is, assertion-free or not.
C7_DegradationAmended ==
    (SynthRan /\ FirstAnswered /\ ~HasAssert(FirstCleaned) /\ RetryAnswered) =>
        /\ pc = "TestRun"
        /\ calls["TestGen"] = 2
        /\ RetryCleaned = <<>> => state.test_code = NoTestsSentinel
        /\ RetryCleaned # <<>> => state.test_code = RetryCleaned

\* prose on both requests: the retry's prose is test_code, not the sentinel
C7_Witness ==
    /\ pc = "TestRun"
    /\ FirstAnswered /\ ~HasAssert(FirstCleaned)
    /\ RetryAnswered /\ ~HasAssert(RetryCleaned) /\ RetryCleaned # <<>>
    /\ calls["TestGen"] = 2
    /\ state.test_code = RetryCleaned

\* C8 (as stated): whichever way the test runner fails (non-zero exit, crash
\* before a report is written, executable that cannot be started), TestRun
\* does not raise: when no report file exists after the invocation,
\* pytest_report is the error marker and the run goes on to FixCode.
C8_AbsorbsRunnerFailure ==
    (pc # "TestRun" /\ stub[1].exit # "unwritable" /\ ~stub[1].report.present) =>
        /\ pc = "FixCode"
        /\ error = "none"
        /\ state.pytest_report = NoReport

\* C9 (as stated): on every exit path of StaticCheck, a failure raised while
\* invoking an analyzer included, the temporary copy of the code has been
\* removed; no END or Aborted state has it on disk.
C9_TempFileRemoved ==
    pc # "StaticCheck" => ~tmp_file

\* the analyzers under test: stub[i] is the run of Tools[i]
StaticRan == pc # "StaticCheck"
AnalyzersStarted == \A i \in 1..Len(Tools) : stub[i].exit \in {"zero", "nonzero"}
LineBreaks(text) == Cardinality({i \in 1..Len(text) : text[i] = "\n"})
DiagnosticLines == Seq(Seq({"E", " "}))

\* C10: for every code input and every combination of zero and non-zero
\* analyzer exit statuses, StaticCheck does not abort and static_analysis has
\* exactly the keys flake8 and mypy, each a list of lines: empty for empty
\* output, else one entry per line of the trimmed output.
C10_FindingsShape ==
    /\ Written("static_analysis") =>
            /\ DOMAIN state.static_analysis = {"flake8", "mypy"}
            /\ \A t \in {"flake8", "mypy"} : state.static_analysis[t] \in DiagnosticLines
    /\ (StaticRan /\ AnalyzersStarted) =>
            /\ pc = "LLMEval"
            /\ Written("static_analysis")
            /\ \A i \in 1..Len(Tools) :
                LET found == state.static_analysis[Tools[i]]
                    out == Strip(stub[i].out)
                IN  /\ out = <<>> => found = <<>>
                    /\ out # <<>> => Len(found) = LineBreaks(out) + 1

\* flake8 exits non-zero with a diagnostic, mypy exits zero with blank
\* output: the run goes on with one finding for flake8 and none for mypy
C10_Witness ==
    /\ pc = "LLMEval"
    /\ stub[1].exit = "nonzero" /\ state.static_analysis["flake8"] # <<>>
    /\ stub[2].exit = "zero" /\ stub[2].out # <<>> /\ state.static_analysis["mypy"] = <<>>

\* the verdict outcome is Pass
VerdictIsPass ==
    /\ Written("llm_verdict")
    /\ state.llm_verdict.type = "dict"
    /\ Get(state.llm_verdict.val, "verdict", "") = "pass"

\* C11: in every run whose verdict outcome is Pass the Fix Synthesizer makes
\* no request to the evaluation capability, the run is not aborted at FixCode,
\* and fixed_code, written once FixCode has run, is the empty string.
C11_PassMakesNoFixRequest ==
    VerdictIsPass =>
        /\ calls["FixCode"] = 0
        /\ "FixCode" \in {trace[i] : i \in 1..Len(trace)} =>
                /\ pc \in {"END", "Exit"}
                /\ Written("fixed_code")
                /\ state.fixed_code = <<>>

\* a completed run with verdict pass: FixCode ran, asked nothing, left ""
C11_Witness ==
    /\ pc = "END"
    /\ VerdictIsPass
    /\ trace[Len(trace)] = "FixCode"
    /\ calls["FixCode"] = 0
    /\ state.fixed_code = <<>>

\* the node that ran last, and the nodes after it in the order of the stages
LastNode == trace[Len(trace)]
Entered(node) == node \in {trace[i] : i \in 1..Len(trace)}
NodesAfter(node) ==
    {StageOrder[j] : j \in {i \in 1..Len(StageOrder) :
                               \E k \in 1..(i - 1) : StageOrder[k] = node}}

\* the verdict request under test met an HTTP failure or a reply that is not JSON
VerdictCallFailed ==
    /\ LastNode = "LLMEval"
    /\ ~stub[1].ok \/ stub[1].content.json = "invalid"
\* the fix request under test, made because the verdict is fail, met an HTTP failure
FixCallFailed ==
    /\ LastNode = "FixCode"
    /\ VerdictIsFail
    /\ ~stub[1].ok

\* the run stopped in node after one request, with node's key not written,
\* no later node entered and no request made by a later node
AbortedIn(node) ==
    /\ pc = "Aborted"
    /\ error # "none"
    /\ calls[node] = 1
    /\ ~Written(OwnedKey[node])
    /\ \A n \in NodesAfter(node) : ~Entered(n) /\ calls[n] = 0 /\ ~Written(OwnedKey[n])
    /\ md_report = <<>> /\ fixed_file = <<>>

C12_FatalInvariant ==
    /\ VerdictCallFailed => AbortedIn("LLMEval") /\ error \in {"HTTPError", "JSONDecodeError"}
    /\ FixCallFailed => AbortedIn("FixCode") /\ error = "HTTPError"

\* C12: an HTTP failure or a reply that is not JSON at LLMEval, and an HTTP
\* failure at FixCode, each abort the run after exactly one request of that
\* stage; the stage's own field is not written, no later stage starts, no
\* further request is made, and no step is ever taken from the aborted state.
C12_FatalServiceErrors == []C12_FatalInvariant /\ [][pc # "Aborted"]_vars

\* a verdict reply that arrived but is not JSON: the run is aborted at LLMEval
C12_Witness ==
    /\ VerdictCallFailed
    /\ stub[1].ok
    /\ AbortedIn("LLMEval")
    /\ error = "JSONDecodeError"

\* the Fix Synthesizer under test has run; stub[1] answers its request
FixRan == pc # "FixCode"

\* C13 (as stated): when the verdict outcome is Fail and the Fix Synthesizer's
\* capability call itself fails, the failure is absorbed: the run completes
\* and its fixed_code is the empty string.
C13_FailedFixIsEmpty ==
    (FixRan /\ VerdictIsFail /\ ~stub[1].ok) =>
        /\ pc = "END"
        /\ Written("fixed_code")
        /\ state.fixed_code = <<>>

\* C13 (amended): when the verdict outcome is Fail and the Fix Synthesizer's
\* capability call itself fails, the run aborts with the HTTP error after
\* that one request and fixed_code is never written: there is no final
\* result, and no empty fixed_code in it.
C13_FailedFixAborts ==
    (FixRan /\ VerdictIsFail /\ ~stub[1].ok) =>
        /\ pc = "Aborted"
        /\ error = "HTTPError"
        /\ calls["FixCode"] = 1
        /\ ~Written("fixed_code")

\* verdict fail, fix request refused: aborted, no fixed_code in the state
C13_Witness ==
    /\ FixRan /\ VerdictIsFail /\ ~stub[1].ok
    /\ pc = "Aborted"
    /\ ~Written("fixed_code")

\* evaluate_code_from_file has returned
Reported == pc = "Exit"

\* C14 (as stated): after a completed run the fixed-code artifact is written
\* if and only if fixed_code is non-empty, and when written its content is the
\* text of fixed_code.
C14_FixArtifact ==
    Reported =>
        /\ fixed_file # <<>> <=> state.fixed_code # <<>>
        /\ fixed_file # <<>> => fixed_file[1] = state.fixed_code

\* C14 (amended): after a completed run the fixed-code artifact is written if
\* and only if fixed_code is non-empty, and when written its content is the
\* text of fixed_code followed by one line break.
C14_FixArtifactAmended ==
    Reported =>
        /\ fixed_file # <<>> <=> state.fixed_code # <<>>
        /\ fixed_file # <<>> => fixed_file[1] = state.fixed_code \o <<"\n">>

\* verdict fail with fix reply x: fixed_code is x and the artifact holds x
\* and a line break
C14_Witness ==
    /\ Reported
    /\ VerdictIsFail
    /\ state.fixed_code = <<"x">>
    /\ fixed_file = <<(<<"x", "\n">>)>>

\* the Test Executor under test has run; stub[1] is the pytest run it met
ExecRan == pc # "TestRun"

\* C15: not stated.  It compares two runs, and in this model a run is a
\* function of the code and of the collaborators' answers, so that two runs
\* with the same answers agree whatever the nodes do.

\* C16: on every exit path of TestRun (report produced, no report produced,
\* an exception while writing the files, starting pytest or reading the
\* report) the temporary directory is gone when the next stage starts or the
\* run aborts.
C16_TempDirReleased ==
    ExecRan =>
        /\ ~tmp_dir
        /\ pc \in {"FixCode", "Aborted"}
        /\ stub[1].exit \in {"unwritable", "oserror"} => pc = "Aborted"
        /\ (stub[1].exit \in {"zero", "nonzero"} /\ stub[1].report.json = "dict") =>
                pc = "FixCode"

\* pytest left a truncated report: json.load raised, the directory is gone
C16_Witness ==
    /\ ExecRan
    /\ stub[1].exit = "nonzero" /\ stub[1].report.present
    /\ pc = "Aborted" /\ error = "JSONDecodeError"
    /\ ~tmp_dir

\* requests sent to the evaluation capability so far in this run
TotalCalls == calls["LLMEval"] + calls["TestGen"] + calls["FixCode"]

\* C17: every run reaches END or aborts; it sends at most four requests to
\* the evaluation capability (one verdict, at most two syntheses, at most
\* one fix) and a completed run has sent at least two.
C17_CallBounds ==
    /\ TotalCalls <= 4
    /\ calls["LLMEval"] <= 1 /\ calls["TestGen"] <= 2 /\ calls["FixCode"] <= 1
    /\ calls["StaticCheck"] = 0 /\ calls["TestRun"] = 0
    /\ pc \in {"END", "Exit"} => TotalCalls >= 2

C17_Terminates == <>(pc \in {"END", "Aborted"}) /\ []C17_CallBounds

\* a completed run that used all four requests
C17_Witness == pc = "END" /\ TotalCalls = 4

\* the run stopped in the Test Synthesizer: nothing after it was entered and
\* test_code was not written
AbortedInSynth ==
    /\ pc = "Aborted" /\ error = "HTTPError"
    /\ LastNode = "TestGen"
    /\ ~Written("test_code") /\ "test_code" \notin DOMAIN state
    /\ ~Entered("TestRun") /\ ~Entered("FixCode")

\* C18: a failed first synthesis request aborts the run after that one
\* request; a failed retry request aborts it after the two; in both cases
\* test_code is not written and TestRun and FixCode never start.
C18_TransportFailureAborts ==
    /\ (SynthRan /\ ~FirstAnswered) =>
            AbortedInSynth /\ calls["TestGen"] = 1
    /\ (SynthRan /\ FirstAnswered /\ ~HasAssert(FirstCleaned) /\ ~RetryAnswered) =>
            AbortedInSynth /\ calls["TestGen"] = 2

\* prose first, then the retry request fails
C18_Witness ==
    /\ SynthRan /\ FirstAnswered /\ ~HasAssert(FirstCleaned) /\ ~RetryAnswered
    /\ pc = "Aborted" /\ calls["TestGen"] = 2
    /\ "test_code" \notin DOMAIN state

\* C19: the report and the fixed-code artifact are written only after the
\* workflow reached END through all five stages; a run that aborted at any
\* stage has written neither.
C19_NoOutputOnAbort ==
    /\ (md_report # <<>> \/ fixed_file # <<>>) =>
            /\ pc = "Exit"
            /\ trace = StageOrder
            /\ md_report # <<>>
    /\ pc = "Aborted" => md_report = <<>> /\ fixed_file = <<>>
    /\ pc \in Nodes \cup {"END"} => md_report = <<>> /\ fixed_file = <<>>

\* the fix request failed in the last stage: nothing is on disk
C19_Witness ==
    /\ pc = "Aborted" /\ LastNode = "FixCode" /\ error = "HTTPError"
    /\ Written("pytest_report")
    /\ md_report = <<>> /\ fixed_file = <<>>

\* C20: in a completed run the report labels the verdict FAIL exactly when
\* the Fix Synthesizer's guard passed and a fix request was made.
C20_LabelAgreesWithGate ==
    Reported =>
        (md_report[1].verdict_icon = "FAIL" <=> calls["FixCode"] = 1)

====
